---- MODULE Spec2Model ----
(***************************************************************************)
(* B0 mapping with a 3D printer as motion stage and a Hall probe.          *)
(*                                                                         *)
(* The module models                                                       *)
(*   - the sampling patterns of b0_map.py (cube_gen, sphere_gen,           *)
(*     cylinder_gen, circle_gen) as operators over exact integer           *)
(*     millimetres (a half-extent side/2 is kept exact by comparing        *)
(*     doubled quantities),                                                *)
(*   - Printer.move_mag of print3d.py as a homogeneous matrix product,     *)
(*   - the main program of b0_map.py as a sequential state machine, one    *)
(*     action per statement that touches the probe, the printer, the       *)
(*     console or the CSV file.                                            *)
(*                                                                         *)
(* SpecGen applies the pattern generators to inputs drawn from bounded     *)
(* sets; Spec runs the program.                                            *)
(***************************************************************************)
EXTENDS Integers, Sequences, FiniteSets, TLC

VARIABLES
    \* ---- pattern generators applied on their own (SpecGen)
    g_side,             \* argument side / diameter (mm)
    g_spacing,          \* argument spacing (mm)
    g_shape,            \* which generator has been applied ("none" before)
    g_out,              \* its return value
    \* ---- command line of b0_map.py (argparse namespace)
    shape, diameter, diameter_is_str, set_center_pos, center, spacing,
    start, remeasure_interval,
    \* ---- program state of b0_map.py
    pc,                 \* position in __main__ / measure / Printer.wait
    axes,               \* probe.axes (0 before the probe is constructed)
    affine,             \* printer.affine (<<>> before the printer is constructed)
    points,             \* the generated pattern
    i,                  \* loop variable of the scan loop
    point,              \* argument of the running measure() call
    call,               \* call site of the running measure() call
    field, temp,        \* locals of measure()
    rows,               \* rows written to the CSV file, header first
    tags,               \* for each row, the statement that wrote it (history)
    \* ---- the collaborators as the program drives them
    last_cmd,           \* last line written to the printer
    unacked,            \* a motion command was written and 'Finished' not yet read
    settled,            \* time.sleep(0.5) has run since the last acknowledgement
    n_moves,            \* G0 lines written
    n_reads,            \* probe fetches (field and temperature)
    stage_touched, probe_touched, sink_touched,
    beeped,
    failed              \* an exception left the program

gvars == <<g_side, g_spacing, g_shape, g_out>>
argvars == <<shape, diameter, diameter_is_str, set_center_pos, center, spacing,
             start, remeasure_interval>>
progvars == <<pc, axes, affine, points, i, point, call, field, temp, rows, tags>>
devvars == <<last_cmd, unacked, settled, n_moves, n_reads, stage_touched,
             probe_touched, sink_touched, beeped, failed>>
vars == <<gvars, argvars, progvars, devvars>>

----------------------------------------------------------------------------
(* Bounds of the model. *)

MaxSide == 10           \* sides / diameters 1..MaxSide in SpecGen
MinSpacing == 2         \* spacings MinSpacing..MaxSpacing in SpecGen
MaxSpacing == 10
MaxStart == 7           \* --restart in 0..MaxStart
MaxInterval == 4        \* --remeasure_interval in 0..MaxInterval

----------------------------------------------------------------------------
(* Arithmetic helpers. *)

Abs(n) == IF n < 0 THEN -n ELSE n

\* ceil(n / d) for d # 0
CeilDiv(n, d) == IF d > 0 THEN -((-n) \div d) ELSE -(n \div (-d))

\* least r >= 0 with r * r >= n : ceil(sqrt(n)) for n >= 0
CeilSqrt(n) == CHOOSE r \in 0..n : r * r >= n /\ (r = 0 \/ (r - 1) * (r - 1) < n)

\* an ndarray holds its elements: the sequence, evaluated once
ndarray(s) == s \o <<>>

\* a[::-1]
Reverse(s) == ndarray([k \in 1..Len(s) |-> s[Len(s) + 1 - k]])

----------------------------------------------------------------------------
(* numpy as b0_map.py uses it. *)

\* np.arange(start, stop, step) with stop given doubled (stop2 = 2 * stop), so
\* that side/2 stays exact: ceil((stop - start) / step) elements start + k*step.
arange(first, stop2, step) ==
    LET len == CeilDiv(stop2 - 2 * first, 2 * step)
    IN  IF len <= 0 THEN <<>> ELSE ndarray([k \in 1..len |-> first + (k - 1) * step])

\* np.meshgrid(a, a, a, indexing='ij'), each flattened, stacked and transposed:
\* row (p, q, r) of the C-order flattening is (a[p], a[q], a[r]).
meshgrid3(a) ==
    LET n == Len(a)
    IN  ndarray([k \in 1..(n * n * n) |->
            << a[((k - 1) \div (n * n)) + 1],
               a[(((k - 1) \div n) % n) + 1],
               a[((k - 1) % n) + 1] >>])

\* np.meshgrid(a, a, indexing='ij') with X = zeros_like(Y)
meshgrid2(a) ==
    LET n == Len(a)
    IN  ndarray([k \in 1..(n * n) |->
            << 0, a[((k - 1) \div n) + 1], a[((k - 1) % n) + 1] >>])

\* faulty variant of KeyLess: the keys taken first to last (x most significant)
KeyLess_xyz(p, q) ==
    \/ p[1] < q[1]
    \/ p[1] = q[1] /\ p[2] < q[2]
    \/ p[1] = q[1] /\ p[2] = q[2] /\ p[3] < q[3]

\* key order of np.lexsort((p[:,0], p[:,1], p[:,2])): last key first
KeyLess(p, q) ==
    \/ p[3] < q[3]
    \/ p[3] = q[3] /\ p[2] < q[2]
    \/ p[3] = q[3] /\ p[2] = q[2] /\ p[1] < q[1]

\* np.lexsort: the stable sorting permutation (ties keep their input order)
lexsort(p) ==
    LET n == Len(p)
        rank == ndarray([k \in 1..n |->
                   1 + Cardinality({j \in 1..n :
                          KeyLess(p[j], p[k]) \/ (~KeyLess(p[k], p[j]) /\ j < k)})])
    IN  ndarray([r \in 1..n |-> CHOOSE k \in 1..n : rank[k] = r])

\* p[perm] : fancy indexing by an index array
take(p, perm) == ndarray([r \in 1..Len(perm) |-> p[perm[r]]])

\* p[index, :] : boolean-mask indexing keeps the rows whose mask is TRUE, in order
mask_select(p, index) ==
    LET keep == {k \in 1..Len(p) : index[k]}
    IN  ndarray([r \in 1..Cardinality(keep) |->
            p[CHOOSE k \in keep : Cardinality({j \in keep : j <= k}) = r]])

\* faulty variant of within: the boundary excluded (< for <=)
within_strict(q, d) == CeilSqrt(4 * q) < d

\* np.sqrt(q) <= diameter/2, for an integer q >= 0
within(q, d) == CeilSqrt(4 * q) <= d

----------------------------------------------------------------------------
(* The pattern generators. *)

\* faulty variant of axis_gen: the lower axis starts at 0 instead of -spacing
axis_gen_dup(side, s) ==
    LET upper_axis == arange(0, side + 2 * s, s)
        lower_axis == Reverse(arange(0, -(side + 2 * s), -s))
    IN  upper_axis \o lower_axis

\* upper_axis, lower_axis and their concatenation
axis_gen(side, s) ==
    LET upper_axis == arange(0, side + 2 * s, s)
        lower_axis == Reverse(arange(-s, -(side + 2 * s), -s))
    IN  upper_axis \o lower_axis

cube_gen(side, s) ==
    LET pts == meshgrid3(axis_gen(side, s))
    IN  take(pts, lexsort(pts))

sphere_gen(d, s) ==
    LET cube == cube_gen(d, s)
        index == ndarray([k \in 1..Len(cube) |->
                    within(cube[k][1] * cube[k][1] + cube[k][2] * cube[k][2]
                           + cube[k][3] * cube[k][3], d)])
    IN  mask_select(cube, index)

cylinder_gen(d, s) ==
    LET cube == cube_gen(d, s)
        index == ndarray([k \in 1..Len(cube) |->
                    within(cube[k][1] * cube[k][1] + cube[k][2] * cube[k][2], d)])
    IN  mask_select(cube, index)

rect_gen(d, s) ==
    LET pts == meshgrid2(axis_gen(d, s))
    IN  take(pts, lexsort(pts))

circle_gen(d, s) ==
    LET rect == rect_gen(d, s)
        index == ndarray([k \in 1..Len(rect) |->
                    within(rect[k][1] * rect[k][1] + rect[k][2] * rect[k][2]
                           + rect[k][3] * rect[k][3], d)])
    IN  mask_select(rect, index)

generate(sh, d, s) ==
    CASE sh = "cube" -> cube_gen(d, s)
      [] sh = "cylinder" -> cylinder_gen(d, s)
      [] sh = "sphere" -> sphere_gen(d, s)
      [] sh = "circle" -> circle_gen(d, s)

Shapes == {"cube", "cylinder", "sphere", "circle"}

----------------------------------------------------------------------------
(* The pattern generators applied to bounded inputs (SpecGen). *)

GenCube ==
    /\ g_shape = "none"
    /\ g_shape' = "cube"
    /\ g_out' = cube_gen(g_side, g_spacing)
    /\ UNCHANGED <<g_side, g_spacing, argvars, progvars, devvars>>

GenSphere ==
    /\ g_shape = "none"
    /\ g_shape' = "sphere"
    /\ g_out' = sphere_gen(g_side, g_spacing)
    /\ UNCHANGED <<g_side, g_spacing, argvars, progvars, devvars>>

GenCylinder ==
    /\ g_shape = "none"
    /\ g_shape' = "cylinder"
    /\ g_out' = cylinder_gen(g_side, g_spacing)
    /\ UNCHANGED <<g_side, g_spacing, argvars, progvars, devvars>>

GenCircle ==
    /\ g_shape = "none"
    /\ g_shape' = "circle"
    /\ g_out' = circle_gen(g_side, g_spacing)
    /\ UNCHANGED <<g_side, g_spacing, argvars, progvars, devvars>>

----------------------------------------------------------------------------
(* print3d.Printer *)

\* Printer.__init__ : the default affine matrix
default_affine ==
    << <<0, 0, -1, 0>>,
       <<0, -1, 0, 0>>,
       <<1, 0, 0, 0>>,
       <<0, 0, 0, 1>> >>

\* faulty variant of center_affine: the reflection of the first row dropped
center_affine_flipped(c) ==
    << <<0, 0, 1, c[1]>>,
       <<0, -1, 0, c[2]>>,
       <<1, 0, 0, c[3]>>,
       <<0, 0, 0, 0>> >>

\* b0_map.py : the affine matrix set from the chosen center
center_affine(c) ==
    << <<0, 0, -1, c[1]>>,
       <<0, -1, 0, c[2]>>,
       <<1, 0, 0, c[3]>>,
       <<0, 0, 0, 0>> >>

\* A @ v for a 4x4 matrix and a 4-vector
matvec(A, v) ==
    [r \in 1..4 |-> A[r][1] * v[1] + A[r][2] * v[2] + A[r][3] * v[3] + A[r][4] * v[4]]

\* Printer.move_mag : the printer position commanded for a magnet-frame position
pos_printer(A, position) == SubSeq(matvec(A, Append(position, 1)), 1, 3)

\* Printer.wait : the test of a line read from the printer
is_finished(line) == line = "Finished"

\* faulty variant of after_move: move() in place of move_wait(), no wait
after_move_nowait == "m_sleep"

\* Printer.move_wait : what follows the G0 line
after_move == "wait"

Lines == {"ok", "Finished"}

----------------------------------------------------------------------------
(* b0_map.py, __main__ *)

DefaultDiameter == 100
DefaultCenter == <<110, 110, 250>>
Origin == <<0, 0, 0>>

\* values given on the command line
CliDiameters == {-10, 50}
CenterChoices == {DefaultCenter, Origin}
SpacingChoices == {-50, 0, 50, 100}
\* positions the printer may report to M114
PosChoices == {<<100, 120, 50>>}

\* faulty variant of unwind: the exception is swallowed and the step retried
unwind_retry(p) == p

\* where an exception raised at pc value p takes the program: nothing in
\* b0_map.py catches, so it leaves the with blocks and ends the program
unwind(p) == "error"

\* faulty variant of range_first: the restart index ignored
range_first_zero(st) == 0

\* range(start, n_points) : its first value
range_first(st) == st

\* faulty variant of remeasure_due: the test shifted by one point
remeasure_due_shifted(k, m) == (k + 1) % m = 0

\* the drift test of the scan loop
remeasure_due(k, m) == k % m = 0

\* the statements that talk to a collaborator (probe, printer, console, file)
CollabSteps ==
    {"probe", "printer", "home", "wait", "wait_read", "set_center", "open",
     "m_move", "m_field", "m_temp", "m_row", "beep"}

ScanSteps ==
    {"first", "loop", "loop_point", "last",
     "m_move", "m_sleep", "m_field", "m_temp", "m_row"}

InitArgs ==
    /\ shape \in Shapes
    /\ \/ diameter = DefaultDiameter /\ diameter_is_str = FALSE
       \/ diameter \in CliDiameters /\ diameter_is_str = TRUE
    /\ set_center_pos \in BOOLEAN
    /\ center \in CenterChoices
    /\ spacing \in SpacingChoices
    /\ start \in 0..MaxStart
    /\ remeasure_interval \in 0..MaxInterval

InitProg ==
    /\ pc = "probe"
    /\ axes = 0
    /\ affine = <<>>
    /\ points = <<>>
    /\ i = 0
    /\ point = <<>>
    /\ call = "none"
    /\ field = <<>>
    /\ temp = <<>>
    /\ rows = <<>>
    /\ tags = <<>>

InitDev ==
    /\ last_cmd = [g |-> "none", pos |-> <<>>]
    /\ unacked = FALSE
    /\ settled = FALSE
    /\ n_moves = 0
    /\ n_reads = 0
    /\ stage_touched = FALSE
    /\ probe_touched = FALSE
    /\ sink_touched = FALSE
    /\ beeped = FALSE
    /\ failed = FALSE

\* probe = lakeshore.LakeshoreF71(port) : queries *IDN? and Probe:Axes?
ConstructProbe ==
    /\ pc = "probe"
    /\ \E a \in {1, 3} : axes' = a
    /\ probe_touched' = TRUE
    /\ pc' = "printer"
    /\ UNCHANGED <<gvars, argvars, affine, points, i, point, call, field, temp,
                   rows, tags, last_cmd, unacked, settled, n_moves, n_reads,
                   stage_touched, sink_touched, beeped, failed>>

\* printer = print3d.Printer(port) : writes G90 and M18 S0
ConstructPrinter ==
    /\ pc = "printer"
    /\ affine' = default_affine
    /\ last_cmd' = [g |-> "M18", pos |-> <<>>]
    /\ stage_touched' = TRUE
    /\ pc' = "home"
    /\ UNCHANGED <<gvars, argvars, axes, points, i, point, call, field, temp,
                   rows, tags, unacked, settled, n_moves, n_reads,
                   probe_touched, sink_touched, beeped, failed>>

\* home = input(...); printer.home() when the answer is y
HomePrompt ==
    /\ pc = "home"
    /\ \E answer \in {"y", "n"} :
         IF answer = "y"
         THEN /\ last_cmd' = [g |-> "G28", pos |-> <<>>]
              /\ unacked' = TRUE
              /\ call' = "home"
              /\ pc' = "wait"
         ELSE /\ pc' = "set_center"
              /\ UNCHANGED <<last_cmd, unacked, call>>
    /\ UNCHANGED <<gvars, argvars, axes, affine, points, i, point, field, temp,
                   rows, tags, settled, n_moves, n_reads, stage_touched,
                   probe_touched, sink_touched, beeped, failed>>

\* Printer.wait : write M400 and M118 Finished
WaitWrite ==
    /\ pc = "wait"
    /\ last_cmd' = [g |-> "M400 M118", pos |-> <<>>]
    /\ pc' = "wait_read"
    /\ UNCHANGED <<gvars, argvars, axes, affine, points, i, point, call, field,
                   temp, rows, tags, unacked, settled, n_moves, n_reads,
                   stage_touched, probe_touched, sink_touched, beeped, failed>>

\* Printer.wait : read lines until one starts with Finished
WaitRead ==
    /\ pc = "wait_read"
    /\ \E line \in Lines :
         IF is_finished(line)
         THEN /\ unacked' = FALSE
              /\ pc' = IF call = "home" THEN "set_center" ELSE "m_sleep"
         ELSE UNCHANGED <<unacked, pc>>
    /\ UNCHANGED <<gvars, argvars, axes, affine, points, i, point, call, field,
                   temp, rows, tags, last_cmd, settled, n_moves, n_reads,
                   stage_touched, probe_touched, sink_touched, beeped, failed>>

\* if set_center_pos: center = printer.get_pos()
SetCenter ==
    /\ pc = "set_center"
    /\ IF set_center_pos
       THEN /\ \E p \in PosChoices : center' = p
            /\ last_cmd' = [g |-> "M114", pos |-> <<>>]
       ELSE UNCHANGED <<center, last_cmd>>
    /\ call' = "none"
    /\ pc' = "affine"
    /\ UNCHANGED <<gvars, shape, diameter, diameter_is_str, set_center_pos,
                   spacing, start, remeasure_interval, axes, affine, points, i,
                   point, field, temp, rows, tags, unacked, settled, n_moves,
                   n_reads, stage_touched, probe_touched, sink_touched, beeped,
                   failed>>

\* printer.affine = np.array(...)
DefineAffine ==
    /\ pc = "affine"
    /\ affine' = center_affine(center)
    /\ pc' = "generate"
    /\ UNCHANGED <<gvars, argvars, axes, points, i, point, call, field, temp,
                   rows, tags, devvars>>

\* points = <shape>_gen(diameter, spacing); a diameter given on the command
\* line is a str (the option has no type) and side/2 raises TypeError; np.arange
\* with step 0 raises
Generate ==
    /\ pc = "generate"
    /\ IF diameter_is_str \/ spacing = 0
       THEN /\ pc' = unwind(pc)
            /\ failed' = TRUE
            /\ UNCHANGED points
       ELSE /\ points' = generate(shape, diameter, spacing)
            /\ pc' = "open"
            /\ UNCHANGED failed
    /\ UNCHANGED <<gvars, argvars, axes, affine, i, point, call, field, temp,
                   rows, tags, last_cmd, unacked, settled, n_moves, n_reads,
                   stage_touched, probe_touched, sink_touched, beeped>>

\* the header row of the CSV file
header_row ==
    IF axes = 1
    THEN [coords |-> <<>>, values |-> <<"X", "Y", "Z", "Bz", "T">>]
    ELSE [coords |-> <<>>, values |-> <<"X", "Y", "Z", "Mag", "Bx", "By", "Bz", "T">>]

\* open(save_name, 'w'); csvwriter.writerow(header)
OpenCsv ==
    /\ pc = "open"
    /\ rows' = <<header_row>>
    /\ tags' = <<[kind |-> "header", idx |-> -1]>>
    /\ sink_touched' = TRUE
    /\ pc' = "first"
    /\ UNCHANGED <<gvars, argvars, axes, affine, points, i, point, call, field,
                   temp, last_cmd, unacked, settled, n_moves, n_reads,
                   stage_touched, probe_touched, beeped, failed>>

\* entering measure(p) from call site c
Enter(p, c) ==
    /\ point' = p
    /\ call' = c
    /\ field' = <<>>
    /\ temp' = <<>>
    /\ pc' = "m_move"

\* measure([0,0,0]) before the loop; the loop variable starts at range's first value
MeasureFirst ==
    /\ pc = "first"
    /\ Enter(Origin, "first")
    /\ i' = range_first(start)
    /\ UNCHANGED <<gvars, argvars, axes, affine, points, rows, tags, devvars>>

\* for i in range(start, n_points): if i % remeasure_interval == 0: measure([0,0,0])
LoopTest ==
    /\ pc = "loop"
    /\ i < Len(points)
    /\ IF remeasure_interval = 0
       THEN /\ pc' = unwind(pc)
            /\ failed' = TRUE
            /\ UNCHANGED <<point, call, field, temp>>
       ELSE /\ IF remeasure_due(i, remeasure_interval)
               THEN Enter(Origin, "periodic")
               ELSE Enter(points[i + 1], "point")
            /\ UNCHANGED failed
    /\ UNCHANGED <<gvars, argvars, axes, affine, points, i, rows, tags,
                   last_cmd, unacked, settled, n_moves, n_reads, stage_touched,
                   probe_touched, sink_touched, beeped>>

\* point = points[i,:]; measure(point), after the drift measurement
PointCall ==
    /\ pc = "loop_point"
    /\ Enter(points[i + 1], "point")
    /\ UNCHANGED <<gvars, argvars, axes, affine, points, i, rows, tags, devvars>>

\* the loop is exhausted: measure([0,0,0]) to end
MeasureLast ==
    /\ pc = "loop"
    /\ i >= Len(points)
    /\ Enter(Origin, "last")
    /\ UNCHANGED <<gvars, argvars, axes, affine, points, i, rows, tags, devvars>>

\* printer.move_mag(point) : reset the input buffer, write the G0 line
MoveMag ==
    /\ pc = "m_move"
    /\ last_cmd' = [g |-> "G0", pos |-> pos_printer(affine, point)]
    /\ unacked' = TRUE
    /\ settled' = FALSE
    /\ n_moves' = n_moves + 1
    /\ pc' = after_move
    /\ UNCHANGED <<gvars, argvars, axes, affine, points, i, point, call, field,
                   temp, rows, tags, n_reads, stage_touched, probe_touched,
                   sink_touched, beeped, failed>>

\* time.sleep(0.5)
Sleep ==
    /\ pc = "m_sleep"
    /\ settled' = TRUE
    /\ pc' = "m_field"
    /\ UNCHANGED <<gvars, argvars, axes, affine, points, i, point, call, field,
                   temp, rows, tags, last_cmd, unacked, n_moves, n_reads,
                   stage_touched, probe_touched, sink_touched, beeped, failed>>

\* LakeshoreF71.get_field : one value, or magnitude and three components
get_field == IF axes = 1 THEN <<"B">> ELSE <<"Mag", "Bx", "By", "Bz">>

\* field = probe.get_field()
GetField ==
    /\ pc = "m_field"
    /\ field' = get_field
    /\ n_reads' = n_reads + 1
    /\ pc' = "m_temp"
    /\ UNCHANGED <<gvars, argvars, axes, affine, points, i, point, call, temp,
                   rows, tags, last_cmd, unacked, settled, n_moves,
                   stage_touched, probe_touched, sink_touched, beeped, failed>>

\* temp = probe.get_temp()
GetTemp ==
    /\ pc = "m_temp"
    /\ temp' = <<"T">>
    /\ n_reads' = n_reads + 1
    /\ pc' = "m_row"
    /\ UNCHANGED <<gvars, argvars, axes, affine, points, i, point, call, field,
                   rows, tags, last_cmd, unacked, settled, n_moves,
                   stage_touched, probe_touched, sink_touched, beeped, failed>>

\* csvwriter.writerow([*point, field, temp]); measure returns to its call site
\* (after the point of the loop body: bar() and the next value of range)
WriteRow ==
    /\ pc = "m_row"
    /\ rows' = Append(rows, [coords |-> point, values |-> field \o temp])
    /\ tags' = Append(tags, [kind |-> IF call = "point" THEN "point" ELSE "ref",
                             idx |-> IF call = "point" THEN i ELSE -1])
    /\ i' = IF call = "point" THEN i + 1 ELSE i
    /\ pc' = CASE call = "first" -> "loop"
               [] call = "periodic" -> "loop_point"
               [] call = "point" -> "loop"
               [] call = "last" -> "beep"
    /\ UNCHANGED <<gvars, argvars, axes, affine, points, point, call, field,
                   temp, last_cmd, unacked, settled, n_moves, n_reads,
                   stage_touched, probe_touched, sink_touched, beeped, failed>>

\* printer.beep()
Beep ==
    /\ pc = "beep"
    /\ last_cmd' = [g |-> "M300", pos |-> <<>>]
    /\ beeped' = TRUE
    /\ pc' = "done"
    /\ UNCHANGED <<gvars, argvars, axes, affine, points, i, point, call, field,
                   temp, rows, tags, unacked, settled, n_moves, n_reads,
                   stage_touched, probe_touched, sink_touched, failed>>

\* a collaborator operation raises (serial or VISA I/O error, malformed reply,
\* file error): the statement has no effect and the exception propagates
Fail ==
    /\ pc \in CollabSteps
    /\ pc' = unwind(pc)
    /\ failed' = TRUE
    /\ UNCHANGED <<gvars, argvars, axes, affine, points, i, point, call, field,
                   temp, rows, tags, last_cmd, unacked, settled, n_moves,
                   n_reads, stage_touched, probe_touched, sink_touched, beeped>>

----------------------------------------------------------------------------
(* Specifications. *)

InitGenIdle ==
    /\ g_side = 0
    /\ g_spacing = 0
    /\ g_shape = "none"
    /\ g_out = <<>>

Init == InitGenIdle /\ InitArgs /\ InitProg /\ InitDev

Next ==
    \/ ConstructProbe
    \/ ConstructPrinter
    \/ HomePrompt
    \/ WaitWrite
    \/ WaitRead
    \/ SetCenter
    \/ DefineAffine
    \/ Generate
    \/ OpenCsv
    \/ MeasureFirst
    \/ LoopTest
    \/ PointCall
    \/ MeasureLast
    \/ MoveMag
    \/ Sleep
    \/ GetField
    \/ GetTemp
    \/ WriteRow
    \/ Beep
    \/ Fail

Spec == Init /\ [][Next]_vars

\* the program is not started: the defaults of the command line
InitArgsIdle ==
    /\ shape = "sphere"
    /\ diameter = DefaultDiameter
    /\ diameter_is_str = FALSE
    /\ set_center_pos = FALSE
    /\ center = DefaultCenter
    /\ spacing = 5
    /\ start = 0
    /\ remeasure_interval = 10

InitGen ==
    /\ g_side \in 1..MaxSide
    /\ g_spacing \in MinSpacing..MaxSpacing
    /\ g_shape = "none"
    /\ g_out = <<>>
    /\ InitArgsIdle /\ InitProg /\ InitDev

NextGen == GenCube \/ GenSphere \/ GenCylinder \/ GenCircle

SpecGen == InitGen /\ [][NextGen]_vars

----------------------------------------------------------------------------
(* Properties. *)

N == Len(points)
ScanComplete == pc \in {"beep", "done"}
IsPoint(k) == tags[k].kind = "point"
IsRef(k) == tags[k].kind = "ref" /\ rows[k].coords = Origin
DataRows == 2..Len(rows)

\* C1 (resume law): when a scan with 0 <= start <= N and remeasure_interval
\* >= 1 has run to completion, the rows after the header hold exactly one row
\* for each pattern index in [start, N), in ascending index order and carrying
\* that point's coordinates, none for an index below start, every other row is
\* an origin reference row, and the number of rows after the header is
\* (N - start) + |{k in [start, N) : k mod remeasure_interval = 0}| + 2.
C1_ResumeLaw ==
    (ScanComplete /\ start <= N /\ remeasure_interval >= 1) =>
        /\ Len(rows) - 1 =
              (N - start)
              + Cardinality({k \in start..(N - 1) : k % remeasure_interval = 0}) + 2
        /\ \A idx \in start..(N - 1) :
              /\ Cardinality({k \in DataRows : IsPoint(k) /\ tags[k].idx = idx}) = 1
              /\ \A k \in DataRows :
                    (IsPoint(k) /\ tags[k].idx = idx) => rows[k].coords = points[idx + 1]
        /\ \A k \in DataRows : IsPoint(k) => tags[k].idx \in start..(N - 1)
        /\ \A k1, k2 \in DataRows :
              (IsPoint(k1) /\ IsPoint(k2) /\ k1 < k2) => tags[k1].idx < tags[k2].idx
        /\ \A k \in DataRows : IsPoint(k) \/ IsRef(k)

\* a completed scan of the 15-point cylinder resumed at 5 with interval 4:
\* 10 points, references before 8 and 12, first and last
C1_Witness ==
    /\ pc = "done"
    /\ start = 5
    /\ remeasure_interval = 4
    /\ N = 15
    /\ Len(rows) - 1 = 14

\* C2 as stated (drift cadence): the first row after the header and, once the
\* scan is complete, the last row are origin reference rows, and the row just
\* before the row of point idx is an origin reference row if and only if
\* idx mod remeasure_interval = 0.
C2_Original ==
    /\ Len(rows) >= 2 => IsRef(2)
    /\ ScanComplete => IsRef(Len(rows))
    /\ \A k \in DataRows :
          IsPoint(k) => (IsRef(k - 1) <=> tags[k].idx % remeasure_interval = 0)

\* C2 as amended (drift cadence): the first row after the header and, once the
\* scan is complete, the last row are origin reference rows; the row just
\* before the row of point idx is a reference row if and only if
\* idx mod remeasure_interval = 0 or idx = start (the first point measured
\* follows the initial reference row); and a reference row stands at no other
\* position: it is the first row, the last row written, or is directly
\* followed by the row of a point whose index is a multiple of
\* remeasure_interval.
C2_DriftCadence ==
    /\ Len(rows) >= 2 => IsRef(2)
    /\ ScanComplete => IsRef(Len(rows))
    /\ \A k \in DataRows :
          IsPoint(k) =>
             (IsRef(k - 1) <=>
                (tags[k].idx % remeasure_interval = 0 \/ tags[k].idx = start))
    /\ \A k \in DataRows :
          (tags[k].kind = "ref" /\ k # 2 /\ k # Len(rows)) =>
             (IsPoint(k + 1) /\ tags[k + 1].idx % remeasure_interval = 0)

\* a completed scan resumed at 5 with interval 4: point 5 follows the initial
\* reference row, point 8 follows a drift reference row
C2_Witness ==
    /\ pc = "done"
    /\ start = 5
    /\ remeasure_interval = 4
    /\ \E k \in DataRows : IsPoint(k) /\ tags[k].idx = 5 /\ IsRef(k - 1) /\ k = 3
    /\ \E k \in DataRows : IsPoint(k) /\ tags[k].idx = 8 /\ IsRef(k - 1)

\* C3 (failure semantics): once a collaborator operation has failed, no step
\* writes another G0 line, fetches from the probe, writes to the printer or
\* appends a row, the rows written before stay as they are, and the beep is
\* never sent.
C3_FailStop ==
    [][ failed' =>
          /\ ~beeped'
          /\ failed => UNCHANGED <<rows, tags, n_moves, n_reads, last_cmd, beeped>> ]_vars

\* a failure in the middle of a scan, with rows already written
C3_Witness ==
    /\ failed
    /\ pc = "error"
    /\ Len(rows) >= 4
    /\ call = "point"

\* C4 as stated (configuration errors fail fast): with spacing <= 0 or
\* diameter <= 0 no probe query, no printer command and no file write has
\* happened.
C4_FailFast ==
    (spacing <= 0 \/ diameter <= 0) =>
        (~probe_touched /\ ~stage_touched /\ ~sink_touched)

\* the stage position of a magnet-frame position p for center c
Transformed(c, p) == <<c[1] - p[3], c[2] - p[2], c[3] + p[1]>>

\* C5 (per-measurement ordering): a G0 line is written only when every
\* earlier measurement has its row, and goes to the transformed position; the
\* acknowledgement precedes the settle delay; the probe is read only after the
\* acknowledgement and the settle delay, the field before the temperature,
\* once each; the row is appended after both reads and carries the point.
C5_Ordering ==
    [][ /\ (n_moves' # n_moves) =>
              /\ n_moves' = n_moves + 1
              /\ Len(rows) = n_moves + 1
              /\ n_reads = 2 * n_moves
              /\ last_cmd' = [g |-> "G0", pos |-> Transformed(center, point)]
              /\ unacked' /\ ~settled'
              /\ field' = <<>> /\ temp' = <<>>
        /\ (unacked /\ ~unacked' /\ call # "home") =>
              /\ last_cmd.g = "M400 M118"
              /\ ~settled /\ field = <<>>
        /\ (~settled /\ settled') =>
              /\ ~unacked /\ n_moves = Len(rows) /\ field = <<>>
        /\ (n_reads' # n_reads) =>
              /\ n_reads' = n_reads + 1
              /\ ~unacked /\ settled /\ n_moves = Len(rows)
        /\ (field' # field /\ field' # <<>>) =>
              /\ n_reads = 2 * (n_moves - 1) /\ temp = <<>>
        /\ (temp' # temp /\ temp' # <<>>) =>
              /\ n_reads = 2 * n_moves - 1 /\ field # <<>>
        /\ (Len(rows') > Len(rows) /\ Len(rows) >= 1) =>
              /\ field # <<>> /\ temp # <<>>
              /\ ~unacked /\ settled
              /\ n_moves = Len(rows) /\ n_reads = 2 * n_moves
              /\ rows' = Append(rows, [coords |-> point, values |-> field \o temp])
      ]_vars

\* the third measurement has moved, been acknowledged, settled and read its field
C5_Witness ==
    /\ pc = "m_temp"
    /\ n_moves = 3
    /\ Len(rows) = 3
    /\ ~unacked /\ settled /\ field # <<>>

\* C6 (origin exactly once): every generated pattern holds (0,0,0) exactly once.
C6_OriginOnce ==
    g_shape # "none" =>
        Cardinality({k \in 1..Len(g_out) : g_out[k] = Origin}) = 1

\* a sphere of several points
C6_Witness ==
    /\ g_shape = "sphere"
    /\ g_side = 10 /\ g_spacing = 5
    /\ Len(g_out) = 7
    /\ g_out[4] = Origin

\* p before q in (z, y, x) order
ZyxBefore(p, q) ==
    \/ p[3] < q[3]
    \/ p[3] = q[3] /\ (p[2] < q[2] \/ (p[2] = q[2] /\ p[1] < q[1]))

InBall(p) == 4 * (p[1] * p[1] + p[2] * p[2] + p[3] * p[3]) <= g_side * g_side
InDisc(p) == 4 * (p[1] * p[1] + p[2] * p[2]) <= g_side * g_side
InCircle(p) == 4 * (p[2] * p[2] + p[3] * p[3]) <= g_side * g_side

\* C8 (filtering selects in order): sphere_gen is the subsequence of cube_gen
\* of the points with x^2+y^2+z^2 <= (d/2)^2, cylinder_gen that of the points
\* with x^2+y^2 <= (d/2)^2, circle_gen the subsequence of the sorted x=0
\* rectangle of the points with y^2+z^2 <= (d/2)^2; sphere_gen(10, 10) is the
\* single point (0,0,0).
C8_Filter ==
    /\ g_shape = "sphere" =>
          g_out = SelectSeq(cube_gen(g_side, g_spacing), InBall)
    /\ g_shape = "cylinder" =>
          g_out = SelectSeq(cube_gen(g_side, g_spacing), InDisc)
    /\ g_shape = "circle" =>
          g_out = SelectSeq(rect_gen(g_side, g_spacing), InCircle)
    /\ (g_shape = "sphere" /\ g_side = 10 /\ g_spacing = 10) => g_out = <<Origin>>

\* a sphere that keeps points of its boundary and drops points of its cube
C8_Witness ==
    /\ g_shape = "sphere"
    /\ g_side = 10 /\ g_spacing = 5
    /\ Len(g_out) = 7
    /\ \E k \in 1..Len(g_out) : g_out[k] = <<5, 0, 0>>

\* C9 (coordinate transform): every G0 line goes to
\* (cx - z, cy - y, cz + x) for the point (x, y, z) being measured and the
\* center (cx, cy, cz), which for the center (0,0,0) is (-z, -y, x); and once
\* the scan has started the matrix and the center do not change.
C9_Transform ==
    [][ /\ (n_moves' # n_moves) =>
              /\ last_cmd'.g = "G0"
              /\ last_cmd'.pos =
                    <<center[1] - point[3], center[2] - point[2], center[3] + point[1]>>
              /\ center = Origin =>
                    last_cmd'.pos = <<-point[3], -point[2], point[1]>>
        /\ (Len(rows) >= 1) => (affine' = affine /\ center' = center)
      ]_vars

\* a move to a point off the origin, under the default center
C9_Witness ==
    /\ last_cmd.g = "G0"
    /\ point = <<50, 0, -50>>
    /\ center = DefaultCenter
    /\ last_cmd.pos = <<160, 110, 300>>
    /\ n_moves >= 3

\* C10 as stated (extent): every generated point has |x|, |y|, |z| <= size/2.
C10_WithinExtent ==
    g_shape # "none" =>
        \A k \in 1..Len(g_out) : \A c \in 1..3 : 2 * Abs(g_out[k][c]) <= g_side

====
